---------------------------- MODULE Spec2Model ----------------------------
(***************************************************************************)
(* mem_viewer (src/src/lib.rs): the two inspection macros view_mem! (the   *)
(* direct pipeline, which walks live memory through _show_memory_content)  *)
(* and safe_view_mem! (the isolated pipeline, which serializes the value   *)
(* with bincode into a Vec<u8> container and prints the container).        *)
(*                                                                         *)
(* Text is modelled as sequences of character codes, so that formatting,   *)
(* padding and parsing are computed and not assumed.  The target is the    *)
(* one of the documented test report: 64-bit, little-endian.               *)
(***************************************************************************)
EXTENDS Integers, Sequences, FiniteSets, TLC

VARIABLES
    val,        \* the value bound at the call site (let my_var = ...)
    addr,       \* address of the variable's own storage
    data,       \* address of the payload a text / vector variable points to
    mem,        \* live memory: allocated address -> byte
    pc,         \* position of the running macro call
    out,        \* the lines the current call has written to standard output
    pipeline,   \* "none" | "direct" | "isolated": which macro is (was last) running
    form,       \* the shape of the macro's argument expression
    size,       \* the macro's local `size`
    ptr,        \* _show_memory_content: ptr
    endp,       \* _show_memory_content: end
    serialized, \* what serialize_into wrote into the container, before any stripping
    container,  \* safe_view_mem!: container (the bytes displayed)
    cptr,       \* container.as_ptr()
    idx,        \* safe_view_mem!: position of container.iter()
    reads,      \* addresses _show_memory_content has dereferenced in this call
    src,        \* _show_memory_content: src_ptr
    prev        \* what the call before this one left on standard output

vars == <<val, addr, data, mem, pc, out, pipeline, form, size, ptr, endp,
          serialized, container, cptr, idx, reads, src, prev>>

-----------------------------------------------------------------------------
(* Bounds of the model *)

\* longest text / vector payload, in bytes
MaxLen == 9
\* most fields of a serializable struct
MaxFields == 2
\* where the variable's own storage may start
StackBase == 16
\* where a text / vector payload may start
DataBase == 96
\* where the allocator may place the container
HeapBase == 160
\* where the temporaries of a statement may be placed
TempBase == 128

(* Program constants *)

\* size of a thin reference on the documented target ("Size : 8 bytes")
PtrSize == 8
\* the serializer's length header the macro strips: container[8..]
HeaderLen == 8

Byte == 0..255

-----------------------------------------------------------------------------
(* Sequences of bytes / characters *)

\* a slice that starts one element early: &s[n - 1..]
SliceFromOneEarly(s, n) ==
    IF n > Len(s) THEN [panic |-> TRUE, bytes |-> <<>>]
    ELSE [panic |-> FALSE, bytes |-> [i \in 1..(Len(s) - n + 1) |-> s[i + n - 1]]]

\* &s[n..]: the elements after the first n; a start past the end panics
SliceFrom(s, n) ==
    IF n > Len(s) THEN [panic |-> TRUE, bytes |-> <<>>]
    ELSE [panic |-> FALSE, bytes |-> [i \in 1..(Len(s) - n) |-> s[i + n]]]

RECURSIVE Flatten(_)
Flatten(ss) == IF ss = <<>> THEN <<>> ELSE Head(ss) \o Flatten(Tail(ss))

\* little-endian encoding of x in w bytes
RECURSIVE LEBytes(_, _)
LEBytes(x, w) == IF w = 0 THEN <<>> ELSE <<x % 256>> \o LEBytes(x \div 256, w - 1)

-----------------------------------------------------------------------------
(* Rust's integer formatting: {:02x}, {:03}, {:08b}, {:016x} *)

\* the character of one digit: '0'..'9', 'a'..'f'
DigitChar(d) == IF d < 10 THEN 48 + d ELSE 87 + d

\* the digits of n in the radix, most significant first, no padding
RECURSIVE Digits(_, _)
Digits(n, radix) ==
    IF n < radix THEN <<DigitChar(n)>>
    ELSE Digits(n \div radix, radix) \o <<DigitChar(n % radix)>>

\* the `0<width>` flag: zero-fill on the left up to a MINIMUM width
RECURSIVE ZeroPad(_, _)
ZeroPad(s, width) == IF Len(s) >= width THEN s ELSE ZeroPad(<<48>> \o s, width)

\* {:x}: the padding forgotten
FormatHexUnpadded(b) == Digits(b, 16)

\* {}: the decimal column without its zero-fill
FormatDecUnpadded(b) == Digits(b, 10)

\* {:b}: the binary column without its zero-fill
FormatBinUnpadded(b) == Digits(b, 2)

FormatHex(b) == ZeroPad(Digits(b, 16), 2)
FormatDec(b) == ZeroPad(Digits(b, 10), 3)
FormatBin(b) == ZeroPad(Digits(b, 2), 8)

\* u8::is_ascii
IsAscii(b) == b <= 127

\* a range that takes the space in: b' '..=b'~'
IsAsciiGraphicWithSpace(b) == b >= 32 /\ b <= 126

\* u8::is_ascii_graphic: b'!'..=b'~'
IsAsciiGraphic(b) == b >= 33 /\ b <= 126

\* the arms 0..=32 of the `match` both pipelines carry, as character codes
ControlNames ==
    << <<78, 85, 76>>,   \*   0 => "NUL"
       <<83, 79, 72>>,   \*   1 => "SOH"
       <<83, 84, 88>>,   \*   2 => "STX"
       <<69, 84, 88>>,   \*   3 => "ETX"
       <<69, 79, 84>>,   \*   4 => "EOT"
       <<69, 78, 81>>,   \*   5 => "ENQ"
       <<65, 67, 75>>,   \*   6 => "ACK"
       <<66, 69, 76>>,   \*   7 => "BEL"
       <<66, 83, 32>>,   \*   8 => "BS "
       <<72, 84, 32>>,   \*   9 => "HT "
       <<76, 70, 32>>,   \*  10 => "LF "
       <<86, 84, 32>>,   \*  11 => "VT "
       <<70, 70, 32>>,   \*  12 => "FF "
       <<67, 82, 32>>,   \*  13 => "CR "
       <<83, 79, 32>>,   \*  14 => "SO "
       <<83, 73, 32>>,   \*  15 => "SI "
       <<68, 76, 69>>,   \*  16 => "DLE"
       <<68, 67, 49>>,   \*  17 => "DC1"
       <<68, 67, 50>>,   \*  18 => "DC2"
       <<68, 67, 51>>,   \*  19 => "DC3"
       <<68, 67, 52>>,   \*  20 => "DC4"
       <<78, 65, 75>>,   \*  21 => "NAK"
       <<83, 89, 78>>,   \*  22 => "SYN"
       <<69, 84, 66>>,   \*  23 => "ETB"
       <<67, 65, 78>>,   \*  24 => "CAN"
       <<69, 77, 32>>,   \*  25 => "EM "
       <<83, 85, 66>>,   \*  26 => "SUB"
       <<69, 83, 67>>,   \*  27 => "ESC"
       <<70, 83, 32>>,   \*  28 => "FS "
       <<71, 83, 32>>,   \*  29 => "GS "
       <<82, 83, 32>>,   \*  30 => "RS "
       <<85, 83, 32>>,   \*  31 => "US "
       <<83, 80, 67>> >> \*  32 => "SPC"

\* the whole `match`: the arms above, 127 => "DEL", _ => "UNK"
MatchName(b) ==
    IF b <= 32 THEN ControlNames[b + 1]
    ELSE IF b = 127 THEN <<68, 69, 76>>
    ELSE <<85, 78, 75>>

\* _show_memory_content: ascii_display, "..." unless the byte is ASCII
DirectLabel(b) ==
    IF IsAscii(b)
    THEN IF IsAsciiGraphic(b) THEN <<b>> ELSE MatchName(b)
    ELSE <<46, 46, 46>>

\* the graphic character without the two spaces after it
SafeLabelBare(b) == IF IsAsciiGraphic(b) THEN <<b>> ELSE MatchName(b)

\* safe_view_mem!: ascii, the graphic character followed by two spaces
SafeLabel(b) ==
    IF IsAsciiGraphic(b) THEN <<b, 32, 32>> ELSE MatchName(b)

-----------------------------------------------------------------------------
(* The values a caller binds, and their two encodings *)

\* std::mem::size_of of the scalar types
ScalarTypes == {"u8", "u16", "u32", "f32", "u64", "f64", "u128"}

Width(ty) ==
    CASE ty = "u8" -> 1
      [] ty = "u16" -> 2
      [] ty \in {"u32", "f32"} -> 4
      [] ty \in {"u64", "f64"} -> 8
      [] ty = "u128" -> 16

Value(kind, ty, bytes, fields) ==
    [kind |-> kind, ty |-> ty, bytes |-> bytes, fields |-> fields]

\* n bytes starting at seed, 37 apart: a byte pattern with no repetition
Ramp(seed, n) == [i \in 1..n |-> (seed + 37 * (i - 1)) % 256]
\* the same, kept within ASCII (a str holds valid UTF-8)
AsciiRamp(seed, n) == [i \in 1..n |-> (seed + 37 * (i - 1)) % 128]

\* the values of the crate's own tests
Hello == <<72, 101, 108, 108, 111>>
TestVec == <<69, 255, 254, 253, 70>>
TestStruct ==
    Value("struct", "struct", <<>>,
          << Value("scalar", "u8", LEBytes(69, 1), <<>>),
             Value("scalar", "u16", LEBytes(255, 2), <<>>),
             Value("scalar", "u32", LEBytes(70, 4), <<>>) >>)

\* every u8; of the wider types the tests' 69, and patterns
ScalarBytes(ty) ==
    IF ty = "u8" THEN {<<b>> : b \in Byte}
    ELSE {LEBytes(69, Width(ty)), Ramp(195, Width(ty)), Ramp(250, Width(ty))}

Scalars ==
    UNION {{Value("scalar", ty, b, <<>>) : b \in ScalarBytes(ty)} : ty \in ScalarTypes}

Texts ==
    {Value("str", "str", Hello, <<>>)}
    \cup {Value("str", "str", AsciiRamp(s, n), <<>>) : s \in {0, 65}, n \in 0..MaxLen}

Vecs ==
    {Value("vec", "Vec<u8>", TestVec, <<>>)}
    \cup {Value("vec", "Vec<u8>", Ramp(s, n), <<>>) : s \in {69, 250}, n \in 0..MaxLen}

FieldTypes == {"u8", "u16", "u32", "u64", "u128"}

FieldLists == UNION {[1..k -> FieldTypes] : k \in 1..MaxFields}

Structs ==
    {TestStruct}
    \cup {Value("struct", "struct", <<>>,
                [i \in 1..Len(tys) |->
                    Value("scalar", tys[i], Ramp(s + i, Width(tys[i])), <<>>)])
          : tys \in FieldLists, s \in {68, 252}}

\* a value whose Serialize implementation reports an error (a sequence of
\* unknown length, a custom error): serialize_into returns Err
Failing == {Value("failing", "failing", <<b>>, <<>>) : b \in {7}}

Values == Scalars \cup Texts \cup Vecs \cup Structs \cup Failing

\* bincode's default encoding, as serialize_into writes it: fixed-width
\* little-endian integers, a u64 length before a str or a sequence, the
\* fields of a struct one after the other
Ok(bytes) == [ok |-> TRUE, bytes |-> bytes]
Err == [ok |-> FALSE, bytes |-> <<>>]

Serialize(v) ==
    CASE v.kind = "scalar" -> Ok(v.bytes)
      [] v.kind \in {"str", "vec"} -> Ok(LEBytes(Len(v.bytes), 8) \o v.bytes)
      [] v.kind = "struct" ->
            Ok(Flatten([i \in 1..Len(v.fields) |-> v.fields[i].bytes]))
      [] v.kind = "failing" -> Err

\* the fields of one width, in declaration order
FieldsOfWidth(fs, w) == SelectSeq(fs, LAMBDA f : Width(f.ty) = w)

\* rustc's layout of a struct: the fields by descending alignment, then
\* padding up to a multiple of the largest alignment; padding holds `fill`
StructImage(fs, fill) ==
    LET body == Flatten([i \in 1..5 |->
                    Flatten([j \in 1..Len(FieldsOfWidth(fs, <<16, 8, 4, 2, 1>>[i])) |->
                        FieldsOfWidth(fs, <<16, 8, 4, 2, 1>>[i])[j].bytes])])
        align == CHOOSE w \in {Width(fs[i].ty) : i \in 1..Len(fs)} :
                    \A i \in 1..Len(fs) : Width(fs[i].ty) <= w
        pad == (align - (Len(body) % align)) % align
    IN  body \o [i \in 1..pad |-> fill]

\* the bytes of the variable's own storage: a scalar's little-endian bytes, a
\* &str's (pointer, length), a Vec's (capacity, pointer, length), a struct's layout
VarImage(v, d, fill) ==
    CASE v.kind \in {"scalar", "failing"} -> v.bytes
      [] v.kind = "str" -> LEBytes(d, 8) \o LEBytes(Len(v.bytes), 8)
      [] v.kind = "vec" ->
            LEBytes(Len(v.bytes), 8) \o LEBytes(d, 8) \o LEBytes(Len(v.bytes), 8)
      [] v.kind = "struct" -> StructImage(v.fields, fill)

\* the payload a text / vector variable points to
Payload(v) == IF v.kind \in {"str", "vec"} THEN v.bytes ELSE <<>>

\* memory with the variable at a and its payload at d
Memory(v, a, d, fill) ==
    LET img == VarImage(v, d, fill)
        pay == Payload(v)
    IN  [x \in (a..(a + Len(img) - 1)) \cup (d..(d + Len(pay) - 1)) |->
            IF x >= a /\ x < a + Len(img) THEN img[x - a + 1] ELSE pay[x - d + 1]]

-----------------------------------------------------------------------------
(* The macros' argument expressions *)

\* view_mem!(my_var), view_mem!(&my_var) and, of a text or a vector,
\* view_mem!(*my_var)
DirectForms(v) ==
    IF v.kind \in {"str", "vec"} THEN {"var", "ref", "deref"} ELSE {"var", "ref"}

\* safe_view_mem!(&my_var) and, of a text or a vector, the fat reference
\* itself: safe_view_mem!(my_str)
SafeForms(v) == IF v.kind \in {"str", "vec"} THEN {"thin", "fat"} ELSE {"thin"}

\* the address `&$var as *const u8` (direct) / `$var as *const u8` (isolated)
\* points at: the variable, or the payload behind it
TargetAddr(f) == IF f \in {"var", "thin"} THEN addr ELSE data

\* std::any::type_name of the variable, as tokens: a text variable is a &str
VarType(v) == IF v.kind = "str" THEN <<"&", "str">> ELSE <<v.ty>>

\* std::any::type_name of what the variable points to
PayloadType(v) == IF v.kind = "str" THEN <<"str">> ELSE <<"[u8]">>

\* _print_type_of(&$var): the type name of &$var without its first character
PrintTypeOf(f) ==
    Tail(<<"&">> \o (CASE f = "var" -> VarType(val)
                       [] f = "ref" -> <<"&">> \o VarType(val)
                       [] OTHER -> PayloadType(val)))

\* _get_type_of($var): the type name of the reference passed
GetTypeOf(f) ==
    <<"&">> \o (IF f = "thin" THEN VarType(val) ELSE PayloadType(val))

\* view_mem!: std::mem::size_of_val(&$var), the size of the place $var; the
\* place of &my_var is a temporary holding a thin reference
DirectSize(f) ==
    CASE f = "var" -> Len(VarImage(val, data, 0))
      [] f = "ref" -> PtrSize
      [] OTHER -> Len(Payload(val))

\* where a temporary of the running statement may be placed: each evaluation
\* of &$var gets a slot of its own, which the compiler may or may not reuse
TempAddrs == {TempBase, TempBase + PtrSize}

\* the cells temporaries may occupy
TempCells == TempBase..(TempBase + 2 * PtrSize - 1)

\* the addresses one evaluation of `&$var as *const u8` may yield: the place
\* $var, which for &my_var is a fresh temporary
ArgAddrs(f) == IF f = "ref" THEN TempAddrs ELSE {TargetAddr(f)}

\* memory once the temporaries of the statement before are dead
Settled(m) == [x \in DOMAIN m \ TempCells |-> m[x]]

\* memory while the temporary of &my_var lives at t: it holds the address of
\* my_var, little-endian
WithTemp(m, t) ==
    [x \in DOMAIN m \cup (t..(t + PtrSize - 1)) |->
        IF x >= t /\ x < t + PtrSize THEN LEBytes(addr, PtrSize)[x - t + 1] ELSE m[x]]

\* memory during the call of _show_memory_content(&$var as ..., size)
Evaluated(f, a) == IF f = "ref" THEN WithTemp(Settled(mem), a) ELSE Settled(mem)

\* the size of what the reference points to: size_of_val($var)
SafeSizeOfPointee(f) ==
    IF f = "thin" THEN Len(VarImage(val, data, 0)) ELSE Len(Payload(val))

\* safe_view_mem!: std::mem::size_of_val(&$var) where $var is itself the
\* reference: the size of the reference, thin or fat
SafeSize(f) == IF f = "thin" THEN PtrSize ELSE 2 * PtrSize

-----------------------------------------------------------------------------
(* Lines of a report *)

Line(kind, v) == [kind |-> kind, val |-> v]

Row(a, b, label) ==
    [kind |-> "Row", addr |-> a, addrText |-> ZeroPad(Digits(a, 16), 16),
     hex |-> FormatHex(b), dec |-> FormatDec(b), bin |-> FormatBin(b),
     ascii |-> label]

Rows(lines) == SelectSeq(lines, LAMBDA l : l.kind = "Row")

\* the four value columns of the rows of a report
Columns(lines) ==
    LET rows == Rows(lines)
    IN  [i \in 1..Len(rows) |-> <<rows[i].hex, rows[i].dec, rows[i].bin, rows[i].ascii>>]

\* nothing on standard output yet
NoReport == [pipeline |-> "none", form |-> "none", bytes |-> <<>>, cols |-> <<>>]

-----------------------------------------------------------------------------
(* The state after the caller has bound its variable *)

\* what a padding byte may hold: it is uninitialised
PadFill == {0, 170}

Init ==
    /\ val \in Values
    /\ addr = StackBase
    /\ data = DataBase
    /\ mem \in {Memory(val, addr, data, fill) : fill \in PadFill}
    /\ pc = "idle"
    /\ out = <<>>
    /\ pipeline = "none"
    /\ form = "none"
    /\ size = 0
    /\ ptr = 0
    /\ endp = 0
    /\ serialized = <<>>
    /\ container = <<>>
    /\ cptr = 0
    /\ idx = 0
    /\ reads = {}
    /\ src = 0
    /\ prev = NoReport

-----------------------------------------------------------------------------
(* view_mem! and _show_memory_content: the direct pipeline *)

\* an end one byte too far: src_ptr.add(len + 1)
EndOfOneMore(p, len) == p + len + 1

\* src_ptr.add(len): one past the last byte to show
EndOf(p, len) == p + len

\* a walker that steps over every other byte
AdvanceTwo(p) == p + 2

\* ptr.add(1)
Advance(p) == p + 1

\* the metadata with the size printed before the address
DirectMetaLinesSizeFirst(f, a) ==
    << Line("Name", f), Line("Type", PrintTypeOf(f)),
       Line("Size", DirectSize(f)), Line("Addr", a) >>

\* view_mem!: the lines Name, Type, Addr, Size; a is what the evaluation of
\* `&$var as *const u8` on the Addr line yields
DirectMetaLines(f, a) ==
    << Line("Name", f), Line("Type", PrintTypeOf(f)),
       Line("Addr", a), Line("Size", DirectSize(f)) >>

\* view_mem!, up to the call of _show_memory_content: the Addr line and the
\* call each evaluate `&$var as *const u8`
ViewMem(f) ==
    /\ pc \in {"idle", "done"}
    /\ f \in DirectForms(val)
    /\ pipeline' = "direct"
    /\ form' = f
    /\ size' = DirectSize(f)
    /\ \E shown \in ArgAddrs(f), passed \in ArgAddrs(f) :
          /\ out' = DirectMetaLines(f, shown)
          /\ src' = passed
          /\ ptr' = passed
          /\ endp' = EndOf(passed, DirectSize(f))
          /\ mem' = Evaluated(f, passed)
    /\ reads' = {}
    /\ serialized' = <<>>
    /\ container' = <<>>
    /\ cptr' = 0
    /\ idx' = 0
    /\ pc' = "show"
    /\ UNCHANGED <<val, addr, data>>

\* _show_memory_content, up to the loop: the header and the divider
ShowMemoryContent ==
    /\ pc = "show"
    /\ out' = out \o << Line("Header", "direct"), Line("Divider", "direct") >>
    /\ pc' = "walk"
    /\ UNCHANGED <<val, addr, data, mem, pipeline, form, size, ptr, endp,
                   serialized, container, cptr, idx, reads, src, prev>>

\* a read that may miss what is stored and yield a zero
LoadOrZero(p) == IF p \in DOMAIN mem THEN {mem[p], 0} ELSE {0, 255}

\* what `*ptr` yields: the byte stored there; outside every allocation the
\* read is undefined and may yield anything
Load(p) == IF p \in DOMAIN mem THEN {mem[p]} ELSE {0, 255}

\* a loop that runs once more: `ptr <= end`
WalkCondInclusive(p, e) == p <= e

\* the loop's condition: `ptr < end`
WalkCond(p, e) == p < e

\* one iteration of `while ptr < end`
WalkStep ==
    /\ pc = "walk"
    /\ WalkCond(ptr, endp)
    /\ \E value \in Load(ptr) :
          out' = Append(out, Row(ptr, value, DirectLabel(value)))
    /\ reads' = reads \cup {ptr}
    /\ ptr' = Advance(ptr)
    /\ UNCHANGED <<val, addr, data, mem, pc, pipeline, form, size, endp,
                   serialized, container, cptr, idx, src, prev>>

\* the loop is over: the closing println!()
WalkEnd ==
    /\ pc = "walk"
    /\ ~WalkCond(ptr, endp)
    /\ out' = Append(out, Line("Blank", ""))
    /\ pc' = "done"
    /\ UNCHANGED <<val, addr, data, mem, pipeline, form, size, ptr, endp,
                   serialized, container, cptr, idx, reads, src, prev>>

-----------------------------------------------------------------------------
(* safe_view_mem!: the isolated pipeline *)

\* the metadata lines moved behind the serialization: none written yet
SafeMetaLinesDeferred(f) == <<>>

\* safe_view_mem!: the lines Name, Type, Addr, Size
SafeMetaLines(f) ==
    << Line("Name", f), Line("Type", GetTypeOf(f)),
       Line("Addr", TargetAddr(f)), Line("Size", SafeSize(f)) >>

\* the macro up to the container: `size` and the four metadata lines
SafeViewMem(f) ==
    /\ pc \in {"idle", "done"}
    /\ f \in SafeForms(val)
    /\ pipeline' = "isolated"
    /\ form' = f
    /\ size' = SafeSize(f)
    /\ out' = SafeMetaLines(f)
    /\ serialized' = <<>>
    /\ container' = <<>>
    /\ cptr' = 0
    /\ idx' = 0
    /\ ptr' = 0
    /\ endp' = 0
    /\ reads' = {}
    /\ src' = 0
    /\ mem' = Settled(mem)
    /\ pc' = "isolate"
    /\ UNCHANGED <<val, addr, data>>

\* a test that forgets the minimum length: `if container.len() != size`
HasHeaderNoMinimum(c, sz) == Len(c) # sz

\* `if container.len() >= 8 && container.len() != size`
HasHeader(c, sz) == Len(c) >= HeaderLen /\ Len(c) # sz

\* the container after the `if`: (&container[8..]).to_vec() or the container
StripHeader(c, sz) ==
    IF HasHeader(c, sz) THEN SliceFrom(c, HeaderLen)
    ELSE [panic |-> FALSE, bytes |-> c]

\* where the allocator may have put a Vec of n bytes: an empty Vec holds a
\* dangling pointer (address 1, the alignment of u8)
AllocAddrs(n) == IF n = 0 THEN {1} ELSE {HeapBase, HeapBase + 3}

\* the error swallowed: the call goes on with what the container holds
UnwrapSwallowed(r) == TRUE

\* Result::unwrap: whether it returns (Ok) rather than panics (Err)
Unwrap(r) == r.ok

\* serialize_into(...).unwrap(), the stripping, and the lines before the loop
Isolate ==
    /\ pc = "isolate"
    /\ LET r == Serialize(val)
           s == StripHeader(r.bytes, size)
       IN  IF ~Unwrap(r)
           THEN \* unwrap() panics: the call ends here
                /\ pc' = "panicked"
                /\ UNCHANGED <<out, serialized, container, cptr>>
           ELSE IF s.panic
           THEN \* the slice index panics
                /\ pc' = "panicked"
                /\ serialized' = r.bytes
                /\ container' = r.bytes
                /\ UNCHANGED <<out, cptr>>
           ELSE /\ serialized' = r.bytes
                /\ container' = s.bytes
                /\ \E p \in AllocAddrs(Len(s.bytes)) :
                      /\ cptr' = p
                      /\ out' = out \o << Line("ContainerPtr", p),
                                          Line("ContainerLen", Len(s.bytes)),
                                          Line("Header", "isolated"),
                                          Line("Divider", "isolated") >>
                /\ pc' = "iter"
    /\ UNCHANGED <<val, addr, data, mem, pipeline, form, size, ptr, endp, idx,
                   reads, src, prev>>

\* rows counted from the address of the inspected value
ElementAddrAtValue(p, i) == addr + i

\* `byte as *const u8 as usize`: the address of element i of the buffer at p
ElementAddr(p, i) == p + i

\* one iteration of `for (_, byte) in container.iter().enumerate()`
SafeRow ==
    /\ pc = "iter"
    /\ idx < Len(container)
    /\ out' = Append(out, Row(ElementAddr(cptr, idx), container[idx + 1],
                              SafeLabel(container[idx + 1])))
    /\ idx' = idx + 1
    /\ UNCHANGED <<val, addr, data, mem, pc, pipeline, form, size, ptr, endp,
                   serialized, container, cptr, reads, src, prev>>

\* the iterator is exhausted: the closing println!()
SafeEnd ==
    /\ pc = "iter"
    /\ idx >= Len(container)
    /\ out' = Append(out, Line("Blank", ""))
    /\ pc' = "done"
    /\ UNCHANGED <<val, addr, data, mem, pipeline, form, size, ptr, endp,
                   serialized, container, cptr, idx, reads, src, prev>>

-----------------------------------------------------------------------------

\* the bytes the running report displays
Displayed == IF pipeline = "direct" THEN [i \in 1..size |-> mem[src + i - 1]]
             ELSE container

\* the finished report scrolls up: it is what the next call finds on
\* standard output
Remember ==
    prev' = IF pc = "done"
            THEN [pipeline |-> pipeline, form |-> form, bytes |-> Displayed,
                  cols |-> Columns(out)]
            ELSE prev

\* one call at a time: what earlier calls printed is not kept
Next ==
    \/ \E f \in {"var", "ref", "deref"} : ViewMem(f) /\ UNCHANGED prev
    \/ ShowMemoryContent
    \/ WalkStep
    \/ WalkEnd
    \/ \E f \in {"thin", "fat"} : SafeViewMem(f) /\ UNCHANGED prev
    \/ Isolate
    \/ SafeRow
    \/ SafeEnd

Spec == Init /\ [][Next]_vars

\* call after call on the same variable, the report before on the screen
NextTwice ==
    \/ \E f \in {"var", "ref", "deref"} : ViewMem(f) /\ Remember
    \/ ShowMemoryContent
    \/ WalkStep
    \/ WalkEnd
    \/ \E f \in {"thin", "fat"} : SafeViewMem(f) /\ Remember
    \/ Isolate
    \/ SafeRow
    \/ SafeEnd

\* the callers of the crate's tests: scalars, texts, vectors, MyStruct
InitTwice == Init /\ val \in Scalars \cup Texts \cup Vecs \cup {TestStruct}

SpecTwice == InitTwice /\ [][NextTwice]_vars

-----------------------------------------------------------------------------
(* Reading a report back *)

Done == pc = "done"

Kinds(lines) == [i \in 1..Len(lines) |-> lines[i].kind]

\* the value printed on the first line of a kind
LineVal(kind) == out[CHOOSE i \in 1..Len(out) : out[i].kind = kind].val

HasLine(kind) == \E i \in 1..Len(out) : out[i].kind = kind

RowCount == Len(Rows(out))

\* the hex column of all rows, concatenated
HexColumn == LET rows == Rows(out) IN Flatten([i \in 1..Len(rows) |-> rows[i].hex])

\* the value of a hexadecimal digit, -1 if the character is none
HexVal(c) ==
    IF c >= 48 /\ c <= 57 THEN c - 48
    ELSE IF c >= 97 /\ c <= 102 THEN c - 87
    ELSE IF c >= 65 /\ c <= 70 THEN c - 55
    ELSE -1

\* a string of hex digit pairs parsed as bytes; -1 where a pair does not parse
RECURSIVE ParseHexBytes(_)
ParseHexBytes(s) ==
    IF Len(s) = 0 THEN <<>>
    ELSE IF Len(s) = 1 THEN <<-1>>
    ELSE << IF HexVal(s[1]) < 0 \/ HexVal(s[2]) < 0 THEN -1
            ELSE 16 * HexVal(s[1]) + HexVal(s[2]) >>
         \o ParseHexBytes(SubSeq(s, 3, Len(s)))

\* a label without its trailing spaces
RECURSIVE TrimRight(_)
TrimRight(s) ==
    IF Len(s) > 0 /\ s[Len(s)] = 32 THEN TrimRight(SubSeq(s, 1, Len(s) - 1)) ELSE s

\* the bytes of the inspected place, in ascending address order
PlaceBytes == [i \in 1..size |-> mem[src + i - 1]]

\* the byte the i-th row of the running report stands for
SourceByte(i) ==
    IF pipeline = "direct" THEN mem[src + i - 1] ELSE container[i]

\* the serialized buffer without its first 8 bytes
Without8(s) == SubSeq(s, 9, Len(s))

\* the isolated pipeline is past its serialization step
Isolated == pipeline = "isolated" /\ pc # "isolate"

SerializationFailed == Isolated /\ ~Serialize(val).ok

-----------------------------------------------------------------------------
(* C1 *)

\* C1 as stated: in every finished report, of either pipeline, the number of
\* byte rows equals the number on the Size line
C1_RowsEqualSizeLine == Done => RowCount = LineVal("Size")

\* C1 amended: a finished report of the direct pipeline prints as many rows as
\* its Size line says; a finished report of the isolated pipeline prints as
\* many rows as its Container Len line says, and its Size line is the size of
\* the reference passed to the macro (8, or 16 for a fat reference)
C1_RowsEqualReportedLength ==
    Done =>
        /\ pipeline = "direct" => RowCount = LineVal("Size")
        /\ pipeline = "isolated" =>
              /\ RowCount = LineVal("ContainerLen")
              /\ LineVal("Size") \in {8, 16}

\* a finished isolated report whose rows are fewer than its Size line
C1_Witness ==
    /\ Done /\ pipeline = "isolated"
    /\ RowCount = 2 /\ LineVal("Size") = 8 /\ LineVal("ContainerLen") = 2

-----------------------------------------------------------------------------
(* C2 *)

\* C2 as stated: a finished report of a scalar prints as many rows as the
\* declared size of its type, in both pipelines, and in the isolated pipeline
\* the displayed container is the whole serialized form
C2_ScalarRowsEqualTypeSize ==
    (Done /\ val.kind = "scalar") =>
        /\ RowCount = Width(val.ty)
        /\ pipeline = "isolated" => container = serialized

-----------------------------------------------------------------------------
(* C3 *)

\* C3: once the container is built, it is the serialized buffer without its
\* first 8 bytes if that buffer has at least 8 bytes and its length differs
\* from `size`, and the serialized buffer itself otherwise; the call panics
\* only when serialization failed, never in the removal
C3_StripExactlyWhenLongAndDifferent ==
    Isolated =>
        IF pc = "panicked" THEN ~Serialize(val).ok
        ELSE IF Len(serialized) >= 8 /\ Len(serialized) # size
        THEN /\ Len(container) = Len(serialized) - 8
             /\ \A i \in 1..Len(container) : container[i] = serialized[i + 8]
        ELSE container = serialized

\* a 5-byte payload behind its header: 13 bytes serialized, 5 displayed
C3_Witness ==
    /\ Isolated /\ Done
    /\ Len(serialized) = 13 /\ size = 8 /\ container = Hello

-----------------------------------------------------------------------------
(* C4 *)

\* C4 as stated: a finished isolated report of a text or a byte vector of n
\* payload bytes says Container Len n and its n rows are the payload bytes in
\* order (for "Hello" the labels H, e, l, l, o)
C4_ContainerRowsArePayload ==
    (Done /\ pipeline = "isolated" /\ val.kind \in {"str", "vec"}) =>
        /\ LineVal("ContainerLen") = Len(val.bytes)
        /\ ParseHexBytes(HexColumn) = val.bytes
        /\ val.bytes = Hello =>
              [i \in 1..RowCount |-> TrimRight(Rows(out)[i].ascii)]
                  = <<(<<72>>), (<<101>>), (<<108>>), (<<108>>), (<<111>>)>>

-----------------------------------------------------------------------------
(* C5 *)

\* C5 as stated: a finished isolated report of a struct of scalar fields
\* prints one row per serialized field byte, in field order: as many rows as
\* the field sizes add up to
C5_StructRowsAreFieldBytes ==
    (Done /\ pipeline = "isolated" /\ val.kind = "struct") =>
        ParseHexBytes(HexColumn)
            = Flatten([i \in 1..Len(val.fields) |-> val.fields[i].bytes])

-----------------------------------------------------------------------------
(* C6 *)

\* C6 as stated: the hex column of a finished isolated report, parsed back as
\* bytes, is the serialized encoding of the value
C6_HexIsSerialized ==
    (Done /\ pipeline = "isolated") => ParseHexBytes(HexColumn) = serialized

\* C6 amended: the hex column of a finished isolated report, parsed back as
\* bytes, is the serialized encoding of the value without its first 8 bytes
\* when that encoding has at least 8 bytes and its length differs from `size`,
\* and the whole serialized encoding otherwise
C6_HexIsDisplayedEncoding ==
    (Done /\ pipeline = "isolated") =>
        ParseHexBytes(HexColumn)
            = IF Len(serialized) >= 8 /\ Len(serialized) # size
              THEN Without8(serialized) ELSE serialized

\* the tests' vector: the five payload bytes come back, the header does not
C6_Witness ==
    /\ Done /\ pipeline = "isolated" /\ val.kind = "vec"
    /\ ParseHexBytes(HexColumn) = TestVec
    /\ Len(serialized) = 13

-----------------------------------------------------------------------------
(* C7 *)

\* C7: the hex column of a finished direct report, parsed back as bytes, is
\* the `size` bytes of the inspected place in ascending address order
C7_HexIsMemory ==
    (Done /\ pipeline = "direct") => ParseHexBytes(HexColumn) = PlaceBytes

\* a finished direct report of a 16-byte place with a byte above 127 in it
C7_Witness ==
    /\ Done /\ pipeline = "direct" /\ size = 16
    /\ ParseHexBytes(HexColumn) = PlaceBytes
    /\ \E i \in 1..size : PlaceBytes[i] > 127

-----------------------------------------------------------------------------
(* C8 *)

\* C8 as stated: when serialization fails, no line of the call's report has
\* been written
C8_NoOutputOnFailure == SerializationFailed => out = <<>>

\* C8 amended: when serialization fails, the four metadata lines Name, Type,
\* Addr and Size have already been written, and they are all that is written
C8_OnlyMetadataOnFailure ==
    SerializationFailed => Kinds(out) = <<"Name", "Type", "Addr", "Size">>

\* the call has ended in the serialization step
C8_Witness == SerializationFailed /\ pc = "panicked" /\ Len(out) = 4

-----------------------------------------------------------------------------
(* C9 *)

\* C9: when serialization fails the call has panicked, and none of the lines
\* Container Ptr, Container Len, header, divider, byte row, blank line is in
\* its output
C9_FailurePanicsBeforeContainerLines ==
    SerializationFailed =>
        /\ pc = "panicked"
        /\ \A k \in {"ContainerPtr", "ContainerLen", "Header", "Divider",
                     "Row", "Blank"} : ~HasLine(k)

\* a panicked call of the isolated pipeline on a value that does not serialize
C9_Witness ==
    /\ pipeline = "isolated" /\ pc = "panicked" /\ val.kind = "failing"
    /\ ~HasLine("ContainerPtr")

-----------------------------------------------------------------------------
(* C10 *)

\* the C0 abbreviations of the claim, in order, without padding
C0Abbreviations ==
    << <<78, 85, 76>>, <<83, 79, 72>>, <<83, 84, 88>>, <<69, 84, 88>>,  \* NUL SOH STX ETX
       <<69, 79, 84>>, <<69, 78, 81>>, <<65, 67, 75>>, <<66, 69, 76>>,  \* EOT ENQ ACK BEL
       <<66, 83>>, <<72, 84>>, <<76, 70>>, <<86, 84>>,                  \* BS HT LF VT
       <<70, 70>>, <<67, 82>>, <<83, 79>>, <<83, 73>>,                  \* FF CR SO SI
       <<68, 76, 69>>, <<68, 67, 49>>, <<68, 67, 50>>, <<68, 67, 51>>,  \* DLE DC1 DC2 DC3
       <<68, 67, 52>>, <<78, 65, 75>>, <<83, 89, 78>>, <<69, 84, 66>>,  \* DC4 NAK SYN ETB
       <<67, 65, 78>>, <<69, 77>>, <<83, 85, 66>>, <<69, 83, 67>>,      \* CAN EM SUB ESC
       <<70, 83>>, <<71, 83>>, <<82, 83>>, <<85, 83>> >>                \* FS GS RS US

\* the label the claim gives a byte below 128
ClaimedLabel(b) ==
    IF b <= 31 THEN C0Abbreviations[b + 1]
    ELSE IF b = 32 THEN <<83, 80, 67>>
    ELSE IF b = 127 THEN <<68, 69, 76>>
    ELSE <<b>>

\* C10: in every report of either pipeline, the label of a row, without its
\* trailing padding, is the claimed label of the byte the row stands for if
\* the byte is below 128, and otherwise a marker that is the label of no byte
\* below 128
C10_LabelOfEveryByte ==
    pipeline \in {"direct", "isolated"} =>
        LET rows == Rows(out)
        IN  \A i \in 1..Len(rows) :
                LET b == SourceByte(i)
                    label == TrimRight(rows[i].ascii)
                IN  IF b <= 127 THEN label = ClaimedLabel(b)
                    ELSE /\ Len(label) > 0
                         /\ \A c \in 0..127 : label # ClaimedLabel(c)

\* a report with a row for DEL, and one with a row for a byte above 127
C10_Witness ==
    /\ pipeline \in {"direct", "isolated"}
    /\ RowCount = 1
    /\ SourceByte(1) \in {127, 200}
    /\ Len(TrimRight(Rows(out)[1].ascii)) = 3

-----------------------------------------------------------------------------
(* C11 *)

\* the value of a digit character '0'..'9', 'a'..'f'; -1 for any other
\* character, an upper-case letter included
DigitVal(c) ==
    IF c >= 48 /\ c <= 57 THEN c - 48
    ELSE IF c >= 97 /\ c <= 102 THEN c - 87
    ELSE -1

\* the number a string of digits denotes in the radix; -1 if a character is
\* no digit of the radix
RECURSIVE ParseNum(_, _)
ParseNum(s, radix) ==
    IF Len(s) = 0 THEN 0
    ELSE LET d == DigitVal(s[Len(s)])
             rest == ParseNum(SubSeq(s, 1, Len(s) - 1), radix)
         IN  IF d < 0 \/ d >= radix \/ rest < 0 THEN -1 ELSE rest * radix + d

\* C11: in every report of either pipeline, the hex column of a row is
\* exactly 2 lower-case hexadecimal digits, its decimal column exactly 3
\* decimal digits and its binary column exactly 8 binary digits, and each of
\* them denotes the byte the row stands for; the byte 69 is rendered as 45,
\* 069, 01000101 with the label E
C11_ColumnsDenoteByte ==
    pipeline \in {"direct", "isolated"} =>
        LET rows == Rows(out)
        IN  \A i \in 1..Len(rows) :
                LET b == SourceByte(i)
                    r == rows[i]
                IN  /\ Len(r.hex) = 2 /\ ParseNum(r.hex, 16) = b
                    /\ Len(r.dec) = 3 /\ ParseNum(r.dec, 10) = b
                    /\ Len(r.bin) = 8 /\ ParseNum(r.bin, 2) = b
                    /\ b = 69 =>
                          /\ r.hex = <<52, 53>>
                          /\ r.dec = <<48, 54, 57>>
                          /\ r.bin = <<48, 49, 48, 48, 48, 49, 48, 49>>
                          /\ TrimRight(r.ascii) = <<69>>

\* the isolated pipeline has printed the row of the byte 69
C11_Witness ==
    /\ pipeline = "isolated" /\ RowCount = 1 /\ SourceByte(1) = 69
    /\ Rows(out)[1].hex = <<52, 53>>
    /\ Rows(out)[1].dec = <<48, 54, 57>>

-----------------------------------------------------------------------------
(* C12 *)

\* the report on the screen and the running one come from different pipelines
OtherPipeline ==
    /\ prev.pipeline \in {"direct", "isolated"}
    /\ pipeline \in {"direct", "isolated"}
    /\ prev.pipeline # pipeline

\* C12 as stated: whenever a row of one pipeline and a row of the other stand
\* for the same byte, their hex, decimal, binary and label columns are the
\* same strings
C12_SameColumnsInBothPipelines ==
    OtherPipeline =>
        LET cols == Columns(out)
        IN  \A i \in 1..Len(cols), j \in 1..Len(prev.cols) :
                SourceByte(i) = prev.bytes[j] => cols[i] = prev.cols[j]

\* C12 amended: whenever a row of one pipeline and a row of the other stand
\* for the same byte, their hex, decimal and binary columns are the same
\* strings; their labels are the same string for the bytes 0..32 and 127; for a
\* printable byte 33..126 the direct label is the character alone and the
\* isolated label the character followed by two spaces; for a byte above 127
\* the direct label is "..." and the isolated label "UNK"
C12_SameDigitsLabelsByRange ==
    OtherPipeline =>
        LET cols == Columns(out)
            direct(i, j) == IF pipeline = "direct" THEN cols[i][4] ELSE prev.cols[j][4]
            isolated(i, j) == IF pipeline = "isolated" THEN cols[i][4] ELSE prev.cols[j][4]
        IN  \A i \in 1..Len(cols), j \in 1..Len(prev.cols) :
                LET b == SourceByte(i)
                IN  b = prev.bytes[j] =>
                        /\ \A k \in 1..3 : cols[i][k] = prev.cols[j][k]
                        /\ (b <= 32 \/ b = 127) => direct(i, j) = isolated(i, j)
                        /\ (b >= 33 /\ b <= 126) =>
                              /\ direct(i, j) = <<b>>
                              /\ isolated(i, j) = <<b, 32, 32>>
                        /\ b >= 128 =>
                              /\ direct(i, j) = <<46, 46, 46>>
                              /\ isolated(i, j) = <<85, 78, 75>>

\* the byte 200 by the direct pipeline, then by the isolated pipeline: one row
\* each, with the same digits and with the two markers
C12_Witness ==
    /\ prev.pipeline = "direct" /\ pipeline = "isolated" /\ Done
    /\ prev.bytes = <<200>> /\ container = <<200>>
    /\ prev.cols[1][1] = Columns(out)[1][1]
    /\ prev.cols[1][4] = <<46, 46, 46>>
    /\ Columns(out)[1][4] = <<85, 78, 75>>

-----------------------------------------------------------------------------
(* C13 *)

\* a finished report of a u16 variable: view_mem!(my_u16), safe_view_mem!(&my_u16)
U16Report ==
    /\ Done /\ val.kind = "scalar" /\ val.ty = "u16"
    /\ form \in {"var", "thin"}

\* the address the table of the finished report starts at
TableBase ==
    IF pipeline = "direct" THEN LineVal("Addr") ELSE LineVal("ContainerPtr")

\* C13: a finished report of a u16 value v, in either pipeline, has exactly 2
\* rows: the first at the table's base address with the low-order byte of v,
\* the second at the base address + 1 with the high-order byte; for v = 69 the
\* rows are (addr, 45, 069, 01000101, E) and (addr+1, 00, 000, 00000000, NUL)
C13_U16TwoRowsLowByteFirst ==
    U16Report =>
        LET rows == Rows(out)
            v == val.bytes[1] + 256 * val.bytes[2]
        IN  /\ Len(rows) = 2
            /\ rows[1].addr = TableBase
            /\ rows[2].addr = TableBase + 1
            /\ ParseNum(rows[1].hex, 16) = v % 256
            /\ ParseNum(rows[2].hex, 16) = v \div 256
            /\ ParseNum(rows[1].dec, 10) = v % 256
            /\ ParseNum(rows[2].dec, 10) = v \div 256
            /\ v = 69 =>
                  /\ rows[1].hex = <<52, 53>>
                  /\ rows[1].dec = <<48, 54, 57>>
                  /\ rows[1].bin = <<48, 49, 48, 48, 48, 49, 48, 49>>
                  /\ TrimRight(rows[1].ascii) = <<69>>
                  /\ rows[2].hex = <<48, 48>>
                  /\ rows[2].dec = <<48, 48, 48>>
                  /\ rows[2].bin = <<48, 48, 48, 48, 48, 48, 48, 48>>
                  /\ TrimRight(rows[2].ascii) = <<78, 85, 76>>

\* view_mem!(my_u16) with my_u16 = 69 has finished: E at the variable's
\* address, NUL one above
C13_Witness ==
    /\ U16Report /\ pipeline = "direct" /\ val.bytes = <<69, 0>>
    /\ Rows(out)[1].addr = addr /\ Rows(out)[1].ascii = <<69>>
    /\ Rows(out)[2].addr = addr + 1 /\ Rows(out)[2].ascii = <<78, 85, 76>>

-----------------------------------------------------------------------------
(* C14 *)

\* the kinds of the lines before the rows, in the order of the claim
LinesBeforeRows(p) ==
    <<"Name", "Type", "Addr", "Size">>
    \o (IF p = "isolated" THEN <<"ContainerPtr", "ContainerLen">> ELSE <<>>)
    \o <<"Header", "Divider">>

\* C14: what a call has written so far is always a beginning of: Name, Type,
\* Addr, Size, (Container Ptr, Container Len in the isolated pipeline only,)
\* the header and the divider of that pipeline, the rows in ascending address
\* order, one blank line; the blank line is the last line, so no row and no
\* metadata line follows it, and no metadata line follows a table line; a
\* finished report has all of them
C14_LinesInOrder ==
    pipeline \in {"direct", "isolated"} =>
        LET k == Kinds(out)
            e == LinesBeforeRows(pipeline)
            rows == Rows(out)
        IN  /\ \A i \in 1..Len(k) :
                  IF i <= Len(e) THEN k[i] = e[i]
                  ELSE k[i] = "Row" \/ (k[i] = "Blank" /\ i = Len(k))
            /\ \A i \in 1..Len(out) :
                  out[i].kind \in {"Header", "Divider"} => out[i].val = pipeline
            /\ \A i \in 1..(Len(rows) - 1) : rows[i + 1].addr = rows[i].addr + 1
            /\ Done => Len(k) = Len(e) + Len(rows) + 1 /\ k[Len(k)] = "Blank"

\* a finished isolated report of two rows: eleven lines
C14_Witness ==
    /\ Done /\ pipeline = "isolated"
    /\ Kinds(out) = <<"Name", "Type", "Addr", "Size", "ContainerPtr", "ContainerLen",
                      "Header", "Divider", "Row", "Row", "Blank">>

-----------------------------------------------------------------------------
(* C15 *)

\* C15: in every isolated report, the address shown in row i (counted from 0)
\* is the number on the Container Ptr line plus i, the Container Ptr line being
\* the address of the container after the removal of the header; so the first
\* row shows the Container Ptr itself, and the rows are not counted from the
\* address on the Addr line
C15_RowsAtContainerPtr ==
    (pipeline = "isolated" /\ HasLine("ContainerPtr")) =>
        LET rows == Rows(out)
        IN  /\ LineVal("ContainerPtr") = cptr
            /\ \A i \in 1..Len(rows) :
                  /\ ParseNum(rows[i].addrText, 16) = LineVal("ContainerPtr") + i - 1
                  /\ rows[i].addr = cptr + i - 1
                  /\ rows[i].addr # LineVal("Addr") + i - 1
            /\ Done => Len(rows) = Len(container)

\* a finished isolated report of a text whose header was removed: five rows
\* from the Container Ptr on, the Addr line elsewhere
C15_Witness ==
    /\ Done /\ pipeline = "isolated" /\ container = Hello
    /\ Len(serialized) = 13
    /\ Rows(out)[1].addr = LineVal("ContainerPtr")
    /\ Rows(out)[5].addr = LineVal("ContainerPtr") + 4
    /\ LineVal("Addr") # LineVal("ContainerPtr")

-----------------------------------------------------------------------------
(* C16 *)

\* C16 as stated: in every report, of either pipeline, the labels of all rows
\* have one common width, that of the three-letter abbreviations
C16_LabelsOfOneWidth ==
    pipeline \in {"direct", "isolated"} =>
        LET rows == Rows(out)
        IN  \A i \in 1..Len(rows) :
                /\ Len(rows[i].ascii) = Len(MatchName(0))
                /\ \A j \in 1..Len(rows) : Len(rows[i].ascii) = Len(rows[j].ascii)

-----------------------------------------------------------------------------
(* C17 *)

\* _show_memory_content(src, size) is in its loop or has returned
Walking == pipeline = "direct" /\ pc \in {"walk", "done"}

\* C17: while _show_memory_content(a, n) runs, it has emitted one row per
\* iteration done, never more than n; row i (from 0) shows the address a + i
\* and the byte stored there; the addresses read so far are a .. a + i - 1,
\* none outside [a, a + n); an iteration is possible while fewer than n are
\* done and the loop exit once n are done; when it has returned, n iterations
\* are done and n rows emitted, and for n = 0 the function has printed the
\* header, the divider and the blank line only
C17_ExactlyLenRowsFromSrc ==
    Walking =>
        LET rows == Rows(out)
            done == Len(rows)
        IN  /\ done <= size
            /\ ptr = src + done
            /\ endp = src + size
            /\ \A i \in 1..done :
                  /\ rows[i].addr = src + i - 1
                  /\ ParseNum(rows[i].addrText, 16) = src + i - 1
                  /\ ParseNum(rows[i].hex, 16) = mem[src + i - 1]
            /\ reads = src..(src + done - 1)
            /\ reads \subseteq src..(src + size - 1)
            /\ (pc = "walk" /\ done < size) => ENABLED WalkStep /\ ~ENABLED WalkEnd
            /\ (pc = "walk" /\ done = size) => ENABLED WalkEnd /\ ~ENABLED WalkStep
            /\ Done => done = size
            /\ (Done /\ size = 0) =>
                  Kinds(SubSeq(out, 5, Len(out))) = <<"Header", "Divider", "Blank">>

\* _show_memory_content(data, 5) has returned: five rows, the five payload
\* addresses read
C17_Witness ==
    /\ Walking /\ Done /\ form = "deref" /\ size = 5
    /\ RowCount = 5 /\ reads = data..(data + 4)
    /\ Rows(out)[5].addr = data + 4

-----------------------------------------------------------------------------
(* C18 *)

\* the step leaves the variable, its payload and where they live as they were
ValueKept ==
    /\ val' = val /\ addr' = addr /\ data' = data
    /\ \A x \in DOMAIN mem \ TempCells : x \in DOMAIN mem' /\ mem'[x] = mem[x]

\* the report just finished and the one before it on the screen come from the
\* same macro with the same argument
SameCallAgain == Done /\ prev.pipeline = pipeline /\ prev.form = form

-----------------------------------------------------------------------------
(* C19 *)

\* C19: in every finished isolated report the number of rows is the number on
\* the Container Len line, and that number is the length of the serialized
\* value or that length minus 8, and not below zero
C19_RowsEqualContainerLen ==
    (Done /\ pipeline = "isolated") =>
        /\ RowCount = LineVal("ContainerLen")
        /\ LineVal("ContainerLen") \in
              {Len(Serialize(val).bytes), Len(Serialize(val).bytes) - 8}
        /\ LineVal("ContainerLen") >= 0

\* a finished isolated report of a value of 8 serialized bytes (an empty
\* vector, a u64): by fat reference nothing is left to show, by thin reference
\* all 8 bytes are
C19_Witness ==
    /\ Done /\ pipeline = "isolated" /\ Len(Serialize(val).bytes) = 8
    /\ RowCount = LineVal("ContainerLen")
    /\ LineVal("ContainerLen") = (IF form = "fat" THEN 0 ELSE 8)

-----------------------------------------------------------------------------
(* C20 *)

\* C20 as stated: in every report of the direct pipeline, whatever the
\* argument expression, the first row shows the address printed on the Addr
\* line
C20_AddrLineIsFirstRowAddress ==
    (pipeline = "direct" /\ RowCount >= 1) =>
        /\ Rows(out)[1].addr = LineVal("Addr")
        /\ Rows(out)[1].addrText = ZeroPad(Digits(LineVal("Addr"), 16), 16)

-----------------------------------------------------------------------------
(* C21 *)

\* the isolated pipeline has printed its metadata lines
SafeMetaPrinted == pipeline = "isolated" /\ HasLine("Addr") /\ HasLine("Size")

\* the in-memory size of the object the argument of safe_view_mem! points to:
\* what view_mem! reports for that place
PlaceSize(f) == DirectSize(IF f = "thin" THEN "var" ELSE "deref")

\* the bytes stored at the address on the Addr line, as many as the object there has
BytesAtAddrLine ==
    [i \in 1..PlaceSize(form) |-> mem[LineVal("Addr") + i - 1]]

\* the object the argument points to, as it lies in memory
PointedObject ==
    IF form = "thin" THEN [i \in 1..PlaceSize(form) |-> mem[addr + i - 1]]
    ELSE Payload(val)

\* C21 as stated: in every isolated report the Size line is the in-memory
\* size of the object at the address on the Addr line; for safe_view_mem!(&x)
\* with x a u16, Addr is the address of x and Size is 2
C21_SizeLineIsSizeOfObjectAtAddr ==
    SafeMetaPrinted =>
        /\ LineVal("Size") = PlaceSize(form)
        /\ (val.kind = "scalar" /\ val.ty = "u16") =>
              LineVal("Addr") = addr /\ LineVal("Size") = 2

\* C21 amended: in every isolated report the Addr line is the address of the
\* object the argument points to, and the bytes there are that object; the
\* Size line is the size of the reference itself, 8 for a thin reference and
\* 16 for a fat one, whatever the size of the object, so it is the object's
\* size only when the object is as large as the reference; for
\* safe_view_mem!(&x) with x a u16, Addr is the address of x and Size is 8
C21_AddrOfObjectSizeOfReference ==
    SafeMetaPrinted =>
        /\ LineVal("Addr") = (IF form = "thin" THEN addr ELSE data)
        /\ BytesAtAddrLine = PointedObject
        /\ LineVal("Size") = (IF form = "thin" THEN 8 ELSE 16)
        /\ LineVal("Size") = size
        /\ (val.kind = "scalar" /\ val.ty = "u16") =>
              LineVal("Addr") = addr /\ LineVal("Size") = 8 /\ PlaceSize(form) = 2

\* safe_view_mem!(&x) with x a u16 has finished: Size 8 above 2 rows, Addr the
\* address of the 2 bytes of x
C21_Witness ==
    /\ SafeMetaPrinted /\ Done /\ val.kind = "scalar" /\ val.ty = "u16"
    /\ LineVal("Addr") = addr /\ LineVal("Size") = 8
    /\ BytesAtAddrLine = val.bytes /\ RowCount = 2

=============================================================================
